---- MODULE Spec2Model ----
(***************************************************************************)
(* Model of scripts/check-performance-regression.py: main(), load_json,    *)
(* find_baseline, extract_params, get_p95 and check_regressions.           *)
(*                                                                         *)
(* Representation of the data:                                             *)
(*  - a Parameters string is the sequence of the fragments that            *)
(*    str.split(", ") yields; a fragment that contains "=" is the pair     *)
(*    <<key, value>> obtained by split("=", 1), a fragment without "=" is  *)
(*    the 1-tuple <<text>>.  The empty string is the empty sequence.       *)
(*  - an optional number (a P95 that may be None, a return value not yet   *)
(*    produced) is <<>> when absent and <<n>> when present.                *)
(*  - change_pct is the exact rational [num, den] of                       *)
(*    ((current_p95 - baseline_p95) / baseline_p95) * 100; the rounding of *)
(*    binary floating point is not modelled.                               *)
(*  - a document is [exists, wellformed, isObject, hasBenchmarks,          *)
(*    Benchmarks]: whether the path exists, json.load accepts it, its top  *)
(*    level is a JSON object, that object has the key "Benchmarks", and    *)
(*    the list stored under it.                                            *)
(***************************************************************************)
EXTENDS Integers, Sequences, FiniteSets, TLC

VARIABLES
    baseline_doc,   \* the file at args.baseline
    current_doc,    \* the file at args.current
    threshold_pct,  \* args.threshold
    pc,             \* position of the run
    baseline,       \* check_regressions: baseline (loaded document)
    current,        \* check_regressions: current (loaded document)
    idx,            \* position of the for loop in the current list
    regressions,    \* check_regressions: regressions
    improvements,   \* check_regressions: improvements
    no_baseline,    \* check_regressions: no_baseline
    outcomes,       \* per visited entry: what the loop body did with it
    exit_code,      \* the status passed to sys.exit
    fault           \* the uncaught exception that ended the run, or "none"

vars == <<baseline_doc, current_doc, threshold_pct, pc, baseline, current, idx,
          regressions, improvements, no_baseline, outcomes, exit_code, fault>>

----------------------------------------------------------------------------
(* Bounds of the inputs *)

MaxBaseline == 2
MaxCurrent == 2

DefaultThreshold == 10

None == <<>>
Some(v) == <<v>>

\* Sequences over S of length at most n.
SeqUpTo(S, n) == UNION {[1..k -> S] : k \in 0..n}

\* Parameters strings, as fragment sequences.
PStrEmpty == <<>>
PStrNM    == << <<"N", "1">>, <<"M", "2">> >>                 \* "N=1, M=2"
PStrMN    == << <<"M", "2">>, <<"N", "1">> >>                 \* "M=2, N=1"
PStrNMx   == << <<"N", "1">>, <<"M", "2">>, <<"x">> >>        \* "N=1, M=2, x"
PStrNN    == << <<"N", "1">>, <<"N", "2">> >>                 \* "N=1, N=2"
PStrN2    == << <<"N", "2">> >>                               \* "N=2"

Entries(methods, pstrs, p95s) ==
    [Method : methods, Parameters : pstrs, P95 : p95s]

MissingDoc ==
    [exists |-> FALSE, wellformed |-> FALSE, isObject |-> FALSE,
     hasBenchmarks |-> FALSE, Benchmarks |-> <<>>]
MalformedDoc ==
    [exists |-> TRUE, wellformed |-> FALSE, isObject |-> FALSE,
     hasBenchmarks |-> FALSE, Benchmarks |-> <<>>]
ArrayDoc ==
    [exists |-> TRUE, wellformed |-> TRUE, isObject |-> FALSE,
     hasBenchmarks |-> FALSE, Benchmarks |-> <<>>]
NoKeyDoc ==
    [exists |-> TRUE, wellformed |-> TRUE, isObject |-> TRUE,
     hasBenchmarks |-> FALSE, Benchmarks |-> <<>>]
ListDoc(l) ==
    [exists |-> TRUE, wellformed |-> TRUE, isObject |-> TRUE,
     hasBenchmarks |-> TRUE, Benchmarks |-> l]

Docs(entries, n) ==
    {MissingDoc, MalformedDoc, ArrayDoc, NoKeyDoc}
        \cup {ListDoc(l) : l \in SeqUpTo(entries, n)}

NotLoaded == MissingDoc

----------------------------------------------------------------------------
(* load_json *)

\* variant: load_json also rejects an object without the key "Benchmarks"
LoadFault_Strict(doc) ==
    IF ~doc.wellformed THEN "JSONDecodeError"
    ELSE IF doc.isObject /\ ~doc.hasBenchmarks THEN "KeyError"
    ELSE "none"

\* json.load raises on a document that is not well-formed, and on nothing else.
LoadFault(doc) == IF doc.wellformed THEN "none" ELSE "JSONDecodeError"

(* data.get("Benchmarks", []) *)
Benchmarks(data) == IF data.hasBenchmarks THEN data.Benchmarks ELSE <<>>

----------------------------------------------------------------------------
(* extract_params *)

HasEq(p) == Len(p) = 2

\* params[key] = value on an insertion-ordered dict, kept as a sequence of
\* <<key, value>> with distinct keys.
DictSet(params, key, value) ==
    IF \E i \in 1..Len(params) : params[i][1] = key
    THEN [i \in 1..Len(params) |->
            IF params[i][1] = key THEN <<key, value>> ELSE params[i]]
    ELSE Append(params, <<key, value>>)

RECURSIVE ExtractLoop(_, _)
ExtractLoop(pairs, params) ==
    IF pairs = <<>> THEN params
    ELSE LET pair == Head(pairs) IN
         ExtractLoop(Tail(pairs),
                     IF HasEq(pair) THEN DictSet(params, pair[1], pair[2])
                     ELSE params)

extract_params(benchmark) ==
    LET param_str == benchmark.Parameters IN
    IF param_str = <<>> THEN <<>> ELSE ExtractLoop(param_str, <<>>)

\* ", ".join(f"{k}={v}" for k, v in params.items())
JoinParams(params) == [i \in 1..Len(params) |-> <<params[i][1], params[i][2]>>]

----------------------------------------------------------------------------
(* find_baseline: the index of the entry returned, 0 for None *)

\* variant: the parameters are compared as sets of pairs, whatever their order
Accepts_Unordered(benchmark, benchmark_name, params) ==
    /\ benchmark.Method = benchmark_name
    /\ {benchmark.Parameters[i] : i \in 1..Len(benchmark.Parameters)}
          = {JoinParams(params)[i] : i \in 1..Len(params)}

\* variant: the name check is skipped
Accepts_AnyName(benchmark, benchmark_name, params) ==
    benchmark.Parameters = JoinParams(params)

Accepts(benchmark, benchmark_name, params) ==
    /\ benchmark.Method = benchmark_name
    /\ benchmark.Parameters = JoinParams(params)

\* variant: the scan does not stop at the first hit, the last one is returned
find_baseline_Last(baseline_data, benchmark_name, params) ==
    LET list == Benchmarks(baseline_data)
        hits == {j \in 1..Len(list) : Accepts(list[j], benchmark_name, params)}
    IN IF hits = {} THEN 0
       ELSE CHOOSE j \in hits : \A k \in hits : j >= k

find_baseline(baseline_data, benchmark_name, params) ==
    LET list == Benchmarks(baseline_data)
        hits == {j \in 1..Len(list) : Accepts(list[j], benchmark_name, params)}
    IN IF hits = {} THEN 0
       ELSE CHOOSE j \in hits : \A k \in hits : j <= k

\* variant: stats.get("P95", 0)
get_p95_DefaultZero(benchmark) ==
    IF benchmark.P95 = None THEN Some(0) ELSE benchmark.P95

get_p95(benchmark) == benchmark.P95

----------------------------------------------------------------------------
(* check_regressions: the classification of one matched pair *)

ChangePct(baseline_p95, current_p95) ==
    [num |-> (current_p95 - baseline_p95) * 100, den |-> baseline_p95]

\* q > t and q < t for the rational q = num/den, den # 0
RatGT(q, t) == IF q.den > 0 THEN q.num > t * q.den ELSE q.num < t * q.den
RatLT(q, t) == IF q.den > 0 THEN q.num < t * q.den ELSE q.num > t * q.den

\* variant: >= and <= in place of > and <
Classify_NonStrict(change_pct, threshold) ==
    IF ~RatLT(change_pct, threshold) THEN "Regression"
    ELSE IF ~RatGT(change_pct, 0 - threshold) THEN "Improvement"
    ELSE "Unchanged"

Classify(change_pct, threshold) ==
    IF RatGT(change_pct, threshold) THEN "Regression"
    ELSE IF RatLT(change_pct, 0 - threshold) THEN "Improvement"
    ELSE "Unchanged"

\* variant: a record of either class goes on both lists
Accumulate_Both(list, class, want, rec) ==
    IF class \in {"Regression", "Improvement"} THEN Append(list, rec) ELSE list

\* the if / elif / else of the loop body: rec goes on the list of its class only
Accumulate(list, class, want, rec) ==
    IF class = want THEN Append(list, rec) ELSE list

ParamKey(benchmark) == <<benchmark.Method, benchmark.Parameters>>

\* variant: a single regression does not fail the run
ExitStatus_MoreThanOne(regs) == IF Len(regs) > 1 THEN 1 ELSE 0

ExitStatus(regs) == IF regs # <<>> THEN 1 ELSE 0

----------------------------------------------------------------------------
(* Actions *)

InitWith(bdocs, cdocs, thresholds) ==
    /\ baseline_doc \in bdocs
    /\ current_doc \in cdocs
    /\ threshold_pct \in thresholds
    /\ pc = "main"
    /\ baseline = NotLoaded
    /\ current = NotLoaded
    /\ idx = 0
    /\ regressions = <<>>
    /\ improvements = <<>>
    /\ no_baseline = <<>>
    /\ outcomes = <<>>
    /\ exit_code = None
    /\ fault = "none"

\* main: the two existence checks, then the call of check_regressions
Main ==
    /\ pc = "main"
    /\ IF ~baseline_doc.exists \/ ~current_doc.exists
       THEN /\ pc' = "exited"
            /\ exit_code' = Some(2)
       ELSE /\ pc' = "load_baseline"
            /\ UNCHANGED exit_code
    /\ UNCHANGED <<baseline_doc, current_doc, threshold_pct, baseline, current,
                   idx, regressions, improvements, no_baseline, outcomes, fault>>

\* baseline = load_json(baseline_path)
LoadBaseline ==
    /\ pc = "load_baseline"
    /\ IF LoadFault(baseline_doc) # "none"
       THEN /\ pc' = "fault"
            /\ fault' = LoadFault(baseline_doc)
            /\ UNCHANGED baseline
       ELSE /\ pc' = "load_current"
            /\ baseline' = baseline_doc
            /\ UNCHANGED fault
    /\ UNCHANGED <<baseline_doc, current_doc, threshold_pct, current, idx,
                   regressions, improvements, no_baseline, outcomes, exit_code>>

\* current = load_json(current_path); the three lists; the loop header
LoadCurrent ==
    /\ pc = "load_current"
    /\ IF LoadFault(current_doc) # "none"
       THEN /\ pc' = "fault"
            /\ fault' = LoadFault(current_doc)
            /\ UNCHANGED <<current, idx>>
       ELSE /\ current' = current_doc
            /\ IF ~current_doc.isObject
               THEN /\ pc' = "fault"
                    /\ fault' = "AttributeError"
                    /\ UNCHANGED idx
               ELSE /\ pc' = "loop"
                    /\ idx' = 1
                    /\ UNCHANGED fault
    /\ regressions' = <<>>
    /\ improvements' = <<>>
    /\ no_baseline' = <<>>
    /\ UNCHANGED <<baseline_doc, current_doc, threshold_pct, baseline,
                   outcomes, exit_code>>

Report(benchmark, outcome, entry) ==
    [name |-> ParamKey(benchmark), outcome |-> outcome, baseline_entry |-> entry]

\* one iteration of the for loop
Step ==
    /\ pc = "loop"
    /\ idx <= Len(Benchmarks(current))
    /\ LET benchmark == Benchmarks(current)[idx]
           name      == benchmark.Method
           params    == extract_params(benchmark)
           param_key == ParamKey(benchmark)
       IN
       IF ~baseline.isObject
       THEN \* baseline_data.get in find_baseline
            /\ pc' = "fault"
            /\ fault' = "AttributeError"
            /\ UNCHANGED <<idx, regressions, improvements, no_baseline, outcomes>>
       ELSE
       LET baseline_entry == find_baseline(baseline, name, params) IN
       IF baseline_entry = 0
       THEN /\ no_baseline' = Append(no_baseline, param_key)
            /\ outcomes' = Append(outcomes, Report(benchmark, "NoBaseline", 0))
            /\ idx' = idx + 1
            /\ UNCHANGED <<pc, fault, regressions, improvements>>
       ELSE
       LET baseline_p95 == get_p95(Benchmarks(baseline)[baseline_entry])
           current_p95  == get_p95(benchmark)
       IN
       IF baseline_p95 = None \/ current_p95 = None
       THEN /\ outcomes' = Append(outcomes,
                                  Report(benchmark, "MissingData", baseline_entry))
            /\ idx' = idx + 1
            /\ UNCHANGED <<pc, fault, regressions, improvements, no_baseline>>
       ELSE IF baseline_p95[1] = 0
       THEN \* the division of line 121
            /\ pc' = "fault"
            /\ fault' = "ZeroDivisionError"
            /\ UNCHANGED <<idx, regressions, improvements, no_baseline, outcomes>>
       ELSE
       LET change_pct == ChangePct(baseline_p95[1], current_p95[1])
           class      == Classify(change_pct, threshold_pct)
           rec        == [name |-> param_key,
                          baseline_p95 |-> baseline_p95[1],
                          current_p95 |-> current_p95[1],
                          change_pct |-> change_pct]
       IN
       /\ regressions' = Accumulate(regressions, class, "Regression", rec)
       /\ improvements' = Accumulate(improvements, class, "Improvement", rec)
       /\ outcomes' = Append(outcomes, Report(benchmark, class, baseline_entry))
       /\ idx' = idx + 1
       /\ UNCHANGED <<pc, fault, no_baseline>>
    /\ UNCHANGED <<baseline_doc, current_doc, threshold_pct, baseline, current,
                   exit_code>>

\* the summary and the return value, handed to sys.exit by main
Summary ==
    /\ pc = "loop"
    /\ idx > Len(Benchmarks(current))
    /\ pc' = "exited"
    /\ exit_code' = Some(ExitStatus(regressions))
    /\ UNCHANGED <<baseline_doc, current_doc, threshold_pct, baseline, current,
                   idx, regressions, improvements, no_baseline, outcomes, fault>>

Next == Main \/ LoadBaseline \/ LoadCurrent \/ Step \/ Summary

----------------------------------------------------------------------------
(* Specifications *)

P95sBaseline == {None, Some(0), Some(50)}
P95sCurrent  == {None, Some(45), Some(50), Some(55)}
Thresholds   == {0 - DefaultThreshold, 0, DefaultThreshold}

Init ==
    InitWith(Docs(Entries({"Search"}, {PStrEmpty}, P95sBaseline), MaxBaseline),
             Docs(Entries({"Search", "Fetch"}, {PStrEmpty}, P95sCurrent), MaxCurrent),
             Thresholds)

Spec == Init /\ [][Next]_vars

PStrsBaseline == {PStrNM, PStrMN, PStrNMx, PStrNN, PStrN2}
PStrsCurrent  == {PStrNM, PStrNMx, PStrNN}

InitMatch ==
    InitWith(Docs(Entries({"Search", "Fetch"}, PStrsBaseline, {Some(50)}), MaxBaseline),
             Docs(Entries({"Search"}, PStrsCurrent, {Some(45), Some(55)}), MaxCurrent),
             {0})

SpecMatch == InitMatch /\ [][Next]_vars

----------------------------------------------------------------------------
(* Vocabulary of the properties *)

BaseList == Benchmarks(baseline_doc)
CurList  == Benchmarks(current_doc)
Visited  == 1..Len(outcomes)

\* check_regressions returned (the run did not stop in main or on an exception)
Returned == pc = "exited" /\ exit_code # Some(2)

BothObjects ==
    /\ baseline_doc.exists /\ baseline_doc.wellformed /\ baseline_doc.isObject
    /\ current_doc.exists /\ current_doc.wellformed /\ current_doc.isObject

Count(class) == Cardinality({i \in Visited : outcomes[i].outcome = class})

\* the value of (current - baseline) / baseline * 100 compared with t, baseline > 0
PctAbove(b, c, t) == (c - b) * 100 > t * b
PctBelow(b, c, t) == (c - b) * 100 < t * b

----------------------------------------------------------------------------
\* C1: for a threshold t >= 0 and a matched pair with both P95 present and
\* baseline_p95 > 0, the entry is Regression iff change_pct > t, Improvement
\* iff change_pct < -t and Unchanged otherwise; change_pct = t and
\* change_pct = -t are Unchanged.
C1_ThresholdClassification ==
    \A i \in Visited :
        LET r == outcomes[i]
            c == CurList[i]
        IN (threshold_pct >= 0 /\ r.baseline_entry # 0) =>
            LET b == BaseList[r.baseline_entry] IN
            (b.P95 # None /\ c.P95 # None /\ b.P95[1] > 0) =>
                LET up   == PctAbove(b.P95[1], c.P95[1], threshold_pct)
                    down == PctBelow(b.P95[1], c.P95[1], 0 - threshold_pct)
                IN /\ r.outcome = "Regression" <=> up
                   /\ r.outcome = "Improvement" <=> down
                   /\ r.outcome = "Unchanged" <=> (~up /\ ~down)

\* a pair whose change is exactly the threshold has been reported Unchanged
C1_Witness ==
    \E i \in Visited :
        /\ threshold_pct > 0
        /\ outcomes[i].baseline_entry # 0
        /\ outcomes[i].outcome = "Unchanged"
        /\ LET b == BaseList[outcomes[i].baseline_entry].P95
               c == CurList[i].P95
           IN /\ b # None /\ c # None /\ b[1] > 0
              /\ (c[1] - b[1]) * 100 = threshold_pct * b[1]

\* C2: when both documents load, the status check_regressions returns is 1
\* iff some entry was classified Regression and 0 iff none was, whatever
\* the numbers of the other outcomes.
C2_ExitStatus ==
    Returned =>
        /\ exit_code = Some(1) <=> (\E i \in Visited : outcomes[i].outcome = "Regression")
        /\ exit_code = Some(0) <=> (\A i \in Visited : outcomes[i].outcome # "Regression")

\* a run returned 0 although it reported an Improvement and a NoBaseline
C2_Witness ==
    /\ Returned
    /\ exit_code = Some(0)
    /\ Count("Improvement") > 0
    /\ Count("NoBaseline") > 0

\* C3: an entry matched to a baseline entry whose P95 is 0 is never divided
\* by zero: it is reported MissingData, no arithmetic fault ends the run.
C3_NoDivisionByZero ==
    /\ fault # "ZeroDivisionError"
    /\ \A i \in Visited :
           (/\ outcomes[i].baseline_entry # 0
            /\ BaseList[outcomes[i].baseline_entry].P95 = Some(0))
               => outcomes[i].outcome = "MissingData"

----------------------------------------------------------------------------
(* Parameter strings as the properties speak of them *)

\* the fragments of a Parameters string that contain "=", in declaration order
KeptPairs(pstr) == SelectSeq(pstr, HasEq)

\* what find_baseline compares a baseline Parameters string with
MatchKey(benchmark) == JoinParams(extract_params(benchmark))

PairSet(pstr) == {pstr[i] : i \in {k \in 1..Len(pstr) : HasEq(pstr[k])}}

FirstPos(pstr, p) == CHOOSE i \in 1..Len(pstr) :
                        /\ pstr[i] = p
                        /\ \A k \in 1..(i - 1) : pstr[k] # p

\* the same key=value pairs, two distinct keys listed in a different order
Reordered(bp, cp) ==
    /\ PairSet(bp) = PairSet(cp)
    /\ \E p, q \in PairSet(cp) :
          /\ p[1] # q[1]
          /\ FirstPos(cp, p) < FirstPos(cp, q)
          /\ FirstPos(bp, q) < FirstPos(bp, p)

SameName(j, i) == BaseList[j].Method = CurList[i].Method

----------------------------------------------------------------------------
\* C4: a baseline entry with the current entry's name is accepted exactly
\* when the pairs kept from its Parameters string equal the pairs kept from
\* the current entry's Parameters string, repeated keys and fragments
\* without "=" included; the entry matched is the first such one.
C4_CanonicalFormsDecide ==
    \A i \in Visited :
        LET same == {j \in 1..Len(BaseList) :
                        /\ SameName(j, i)
                        /\ KeptPairs(BaseList[j].Parameters)
                               = KeptPairs(CurList[i].Parameters)}
        IN /\ outcomes[i].baseline_entry # 0 <=> same # {}
           /\ outcomes[i].baseline_entry # 0 => outcomes[i].baseline_entry \in same

\* C5 (as stated): a current entry with a reordered namesake in the baseline,
\* and no other baseline entry with its name and its exact Parameters
\* string, is NoBaseline and not matched to the reordered entry.
C5_ReorderedIsNoBaseline ==
    \A i \in Visited : \A j \in 1..Len(BaseList) :
        (/\ SameName(j, i)
         /\ Reordered(BaseList[j].Parameters, CurList[i].Parameters)
         /\ \A k \in 1..Len(BaseList) :
               k # j => ~(/\ SameName(k, i)
                          /\ BaseList[k].Parameters = CurList[i].Parameters))
            => /\ outcomes[i].outcome = "NoBaseline"
               /\ outcomes[i].baseline_entry # j

\* C5 (amended): a current entry is never matched to a reordered namesake,
\* and it is NoBaseline when no baseline entry has its name and a Parameters
\* string equal to its canonical parameter string.
C5_ReorderedNeverMatched ==
    \A i \in Visited : \A j \in 1..Len(BaseList) :
        (/\ SameName(j, i)
         /\ Reordered(BaseList[j].Parameters, CurList[i].Parameters))
            => /\ outcomes[i].baseline_entry # j
               /\ (\A k \in 1..Len(BaseList) :
                       ~(/\ SameName(k, i)
                         /\ BaseList[k].Parameters = MatchKey(CurList[i])))
                      => outcomes[i].outcome = "NoBaseline"

\* the only namesake of a visited entry is a reordered one, and it was NoBaseline
C5_Witness ==
    \E i \in Visited : \E j \in 1..Len(BaseList) :
        /\ SameName(j, i)
        /\ Reordered(BaseList[j].Parameters, CurList[i].Parameters)
        /\ \A k \in 1..Len(BaseList) : k # j => ~SameName(k, i)
        /\ outcomes[i].outcome = "NoBaseline"

\* C6: a current entry for which no baseline entry has both its name and a
\* Parameters string equal to its canonical parameter string is NoBaseline,
\* is on the no-baseline list and adds nothing to the other two lists.
C6_AbsentIsNoBaseline ==
    /\ \A i \in Visited :
          (\A j \in 1..Len(BaseList) :
              ~(SameName(j, i) /\ BaseList[j].Parameters = MatchKey(CurList[i])))
             => /\ outcomes[i].outcome = "NoBaseline"
                /\ \E n \in 1..Len(no_baseline) : no_baseline[n] = ParamKey(CurList[i])
    /\ Len(no_baseline) = Count("NoBaseline")
    /\ Len(regressions) = Count("Regression")
    /\ Len(improvements) = Count("Improvement")

\* an entry with a namesake of another Parameters string was NoBaseline while
\* another entry of the run was a Regression
C6_Witness ==
    \E i, m \in Visited :
        /\ \E j \in 1..Len(BaseList) : SameName(j, i)
        /\ \A j \in 1..Len(BaseList) :
              ~(SameName(j, i) /\ BaseList[j].Parameters = MatchKey(CurList[i]))
        /\ outcomes[i].outcome = "NoBaseline"
        /\ CurList[i].P95 # None
        /\ outcomes[m].outcome = "Regression"

----------------------------------------------------------------------------
\* the first baseline entry with the name and the match key of current entry i
Matching(i) == {j \in 1..Len(BaseList) :
                   SameName(j, i) /\ BaseList[j].Parameters = MatchKey(CurList[i])}
FirstMatch(i) == IF Matching(i) = {} THEN 0
                 ELSE CHOOSE j \in Matching(i) : \A k \in Matching(i) : j <= k

\* C7: a matched entry whose own P95 or whose baseline P95 is absent is
\* MissingData; it adds nothing to the regression and improvement lists, it
\* never ends the run, and a run that returns has classified every entry.
C7_MissingDataIsNotFatal ==
    /\ \A i \in Visited :
          (/\ outcomes[i].baseline_entry # 0
           /\ \/ BaseList[outcomes[i].baseline_entry].P95 = None
              \/ CurList[i].P95 = None)
             => outcomes[i].outcome = "MissingData"
    /\ Len(regressions) = Count("Regression")
    /\ Len(improvements) = Count("Improvement")
    /\ (pc = "fault" /\ BothObjects) =>
          LET i == Len(outcomes) + 1 IN
          /\ i <= Len(CurList)
          /\ FirstMatch(i) # 0
          /\ BaseList[FirstMatch(i)].P95 # None
          /\ CurList[i].P95 # None
    /\ Returned => Len(outcomes) = Len(CurList)

\* a MissingData entry was followed by an entry that was classified
C7_Witness ==
    /\ Returned
    /\ \E i \in Visited :
          /\ outcomes[i].outcome = "MissingData"
          /\ i + 1 \in Visited
          /\ outcomes[i + 1].outcome \in {"Regression", "Improvement", "Unchanged"}

Lacks(doc) == ~(doc.isObject /\ doc.hasBenchmarks)

\* C8 (as stated): a well-formed document without a top-level "Benchmarks"
\* list is fatal: no entry is classified and the run does not exit 0 or 1.
C8_ShapeErrorIsFatal ==
    (/\ baseline_doc.exists /\ baseline_doc.wellformed
     /\ current_doc.exists /\ current_doc.wellformed
     /\ Lacks(baseline_doc) \/ Lacks(current_doc))
        => /\ outcomes = <<>>
           /\ pc # "exited"

\* C8 (amended): a well-formed JSON object without the key "Benchmarks" is
\* read as an empty set: as baseline every current entry is NoBaseline, as
\* current no entry is classified, and the run returns 0.  A well-formed
\* document whose top level is not an object classifies no entry; the run
\* then ends on an uncaught AttributeError, except that it returns 0 when
\* that document is the baseline and the current set is empty.
C8_MissingKeyIsEmptySet ==
    /\ (BothObjects /\ (~baseline_doc.hasBenchmarks \/ ~current_doc.hasBenchmarks)) =>
          /\ fault = "none"
          /\ \A i \in Visited : outcomes[i].outcome = "NoBaseline"
          /\ ~current_doc.hasBenchmarks => outcomes = <<>>
          /\ pc = "exited" => /\ exit_code = Some(0)
                              /\ Len(outcomes) = Len(CurList)
    /\ (/\ baseline_doc.exists /\ baseline_doc.wellformed
        /\ current_doc.exists /\ current_doc.wellformed
        /\ ~baseline_doc.isObject \/ ~current_doc.isObject) =>
          /\ outcomes = <<>>
          /\ fault \in {"none", "AttributeError"}
          /\ pc = "exited" => /\ exit_code = Some(0)
                              /\ current_doc.isObject
                              /\ CurList = <<>>

\* a run whose baseline is an object without "Benchmarks" returned 0 with
\* entries reported
C8_Witness ==
    /\ BothObjects
    /\ ~baseline_doc.hasBenchmarks
    /\ pc = "exited"
    /\ exit_code = Some(0)
    /\ outcomes # <<>>

\* C9: the entry matched is the first baseline entry with the current
\* entry's name and match key, and the P95 used is that entry's: a record on
\* the regression or improvement list carries it, and MissingData is
\* reported exactly when it or the current P95 is absent.
C9_FirstMatchWins ==
    /\ \A i \in Visited :
          /\ outcomes[i].baseline_entry = FirstMatch(i)
          /\ FirstMatch(i) # 0 =>
                (outcomes[i].outcome = "MissingData"
                    <=> (BaseList[FirstMatch(i)].P95 = None \/ CurList[i].P95 = None))
    /\ \A n \in 1..Len(regressions) : \E i \in Visited :
          /\ outcomes[i].outcome = "Regression"
          /\ regressions[n].name = ParamKey(CurList[i])
          /\ Some(regressions[n].baseline_p95) = BaseList[FirstMatch(i)].P95
          /\ Some(regressions[n].current_p95) = CurList[i].P95
    /\ \A n \in 1..Len(improvements) : \E i \in Visited :
          /\ outcomes[i].outcome = "Improvement"
          /\ improvements[n].name = ParamKey(CurList[i])
          /\ Some(improvements[n].baseline_p95) = BaseList[FirstMatch(i)].P95
          /\ Some(improvements[n].current_p95) = CurList[i].P95

\* an entry with two matching baseline entries of different P95 was
\* classified with the first one's
C9_Witness ==
    \E i \in Visited : \E j, k \in Matching(i) :
        /\ j < k
        /\ BaseList[j].P95 # BaseList[k].P95
        /\ BaseList[k].P95 = None
        /\ outcomes[i].outcome = "Regression"

----------------------------------------------------------------------------
NoZeroMatched ==
    \A i \in 1..Len(CurList) :
        FirstMatch(i) # 0 => BaseList[FirstMatch(i)].P95 # Some(0)

FiveOutcomes == {"Regression", "Improvement", "Unchanged", "NoBaseline", "MissingData"}

\* the names of the visited entries of one class, in the order of the current set
RECURSIVE NamesOf(_, _)
NamesOf(class, n) ==
    IF n = 0 THEN <<>>
    ELSE IF outcomes[n].outcome = class
         THEN Append(NamesOf(class, n - 1), ParamKey(CurList[n]))
         ELSE NamesOf(class, n - 1)

NameSeq(list) == [n \in 1..Len(list) |-> list[n].name]
Elems(list) == {list[n] : n \in 1..Len(list)}

\* C10: when no matched baseline entry has P95 0, the pass visits every
\* current entry once, in order, and gives it one of the five outcomes; at
\* the end the three lists are pairwise disjoint, keep the order of the
\* current set, and the five counts sum to the number of current entries.
C10_SinglePass ==
    /\ pc = "loop" => Len(outcomes) = idx - 1
    /\ \A i \in Visited :
          /\ outcomes[i].name = ParamKey(CurList[i])
          /\ outcomes[i].outcome \in FiveOutcomes
    /\ (BothObjects /\ NoZeroMatched) => fault = "none"
    /\ Returned =>
          /\ Len(outcomes) = Len(CurList)
          /\ NameSeq(regressions) = NamesOf("Regression", Len(outcomes))
          /\ NameSeq(improvements) = NamesOf("Improvement", Len(outcomes))
          /\ no_baseline = NamesOf("NoBaseline", Len(outcomes))
          /\ Elems(regressions) \cap Elems(improvements) = {}
          /\ Elems(NameSeq(regressions) \o NameSeq(improvements))
                \cap Elems(no_baseline) = {}
          /\ Len(regressions) + Len(improvements) + Len(no_baseline)
                + Count("Unchanged") + Count("MissingData") = Len(CurList)

\* a pass over two entries ended with a Regression and a NoBaseline
C10_Witness ==
    /\ Returned
    /\ NoZeroMatched
    /\ Len(CurList) > 1
    /\ Len(regressions) = 1
    /\ Len(no_baseline) = 1

====
